---- MODULE Spec2Model ----
(***************************************************************************)
(* Model of the intent service of Fritbot (src/src/chat/intent.js): the    *)
(* squelch table, the command and listener registries and the dispatch of  *)
(* one inbound message (handleMessage inside its domain wrapper).          *)
(*                                                                         *)
(* Text is a sequence of one-character strings.  Time is counted in        *)
(* minutes.  A trigger is a regular expression without flags; the model    *)
(* takes literal patterns, for which RegExp.exec returns the leftmost      *)
(* occurrence.  A handler is code of a plugin: what it returns, whether it *)
(* throws and whether it calls squelch() are chosen at each invocation.    *)
(***************************************************************************)
EXTENDS Integers, Sequences, FiniteSets, TLC

VARIABLES commands, listeners, squelch_timers, now, lastCall, pass,
          splitCall

vars == <<commands, listeners, squelch_timers, now, lastCall, pass,
         splitCall>>

(***************************************************************************)
(* Bounds of the model.                                                    *)
(***************************************************************************)
MaxCommands == 2
MaxListeners == 2
MaxTime == 10
MaxSquelchTime == 15
TickStep == 5
MaxPending == 2
MaxLen == 7

(***************************************************************************)
(* Program constants.                                                      *)
(***************************************************************************)
SquelchMinutes == 10

(* JavaScript's null, as the room of a direct-message route. *)
NullRoom == "NULL"

(* Rooms of group conversations: non-empty strings (truthy in JavaScript). *)
Rooms == {"r1", "r2"}

(* The second argument of squelch(): true, false, or left out. *)
Undefined == "undefined"
SquelchArgs == {"true", "false", Undefined}

(* The property key under which squelch_timers[room] stores a room:
   a property key is a string, so null is stored under "null". *)
PropertyKey(room) == IF room = NullRoom THEN "null" ELSE room

(* JavaScript truthiness of a room value: null is falsy, a non-empty
   string is truthy. *)
Truthy(room) == room # NullRoom /\ room # ""

(***************************************************************************)
(* The squelch table.  squelch_timers maps a property key to the moment    *)
(* stored under it; a key outside DOMAIN squelch_timers is an absent       *)
(* property (undefined).  A moment object is always truthy.                *)
(***************************************************************************)

(* squelch(), lines 88-96: the moment stored for a call made at time t. *)
squelchTime(arg, t) ==
    LET flag == IF arg = Undefined THEN "true" ELSE arg
    IN  IF flag = "true" THEN t + SquelchMinutes ELSE t

(* squelch(), line 97: this.squelch_timers[room] = time. *)
squelch(timers, room, arg, t) ==
    [k \in DOMAIN timers \cup {PropertyKey(room)} |->
        IF k = PropertyKey(room) THEN squelchTime(arg, t) ELSE timers[k]]

(* Variants of squelched() used to test the claims' sensitivity. *)
squelched_inclusive(timers, room, t) ==
    IF Truthy(room) /\ PropertyKey(room) \in DOMAIN timers
    THEN t - timers[PropertyKey(room)] <= 0
    ELSE FALSE

squelched_anyroom(timers, room, t) ==
    IF PropertyKey(room) \in DOMAIN timers
    THEN t - timers[PropertyKey(room)] < 0
    ELSE FALSE

(* squelched(), lines 101-108, read at time t:
   delta = moment().diff(timer) = t - timer. *)
squelched(timers, room, t) ==
    IF Truthy(room) /\ PropertyKey(room) \in DOMAIN timers
    THEN LET delta == t - timers[PropertyKey(room)]
         IN  delta < 0
    ELSE FALSE

(***************************************************************************)
(* Text.  A string is a sequence of characters; positions in the comments  *)
(* are JavaScript's (from 0), positions in the operators are TLA+'s        *)
(* (from 1).                                                               *)
(***************************************************************************)

(* String.prototype.slice(n) for 0 <= n. *)
Slice(s, n) == SubSeq(s, n + 1, Len(s))

(* The pattern p occurs in s at JavaScript position i. *)
OccursAt(p, s, i) ==
    /\ i + Len(p) <= Len(s)
    /\ SubSeq(s, i + 1, i + Len(p)) = p

(* The result null of RegExp.exec and String.match. *)
Null == [index |-> -1]

(* RegExp.prototype.exec for a literal pattern without flags: the leftmost
   occurrence, as [index, text] with text the matched substring
   (matched[0]); null when there is none. *)
exec(trigger, message) ==
    LET hits == {i \in 0..Len(message) : OccursAt(trigger, message, i)}
    IN  IF hits = {} THEN Null
        ELSE [index |-> CHOOSE i \in hits : \A j \in hits : i <= j,
              text |-> trigger]

(***************************************************************************)
(* splitArgs, lines 38-85.                                                 *)
(***************************************************************************)
Space == " "
SingleQuote == "'"
DoubleQuote == "\""

(* The typographic quotes U+2018, U+2019, U+201C, U+201D. *)
LeftSingle == "U+2018"
RightSingle == "U+2019"
LeftDouble == "U+201C"
RightDouble == "U+201D"

(* String.prototype.trim, line 41, on text whose only white space is the
   space character. *)
RECURSIVE TrimLeft(_)
TrimLeft(s) ==
    IF s # <<>> /\ Head(s) = Space THEN TrimLeft(Tail(s)) ELSE s

RECURSIVE TrimRight(_)
TrimRight(s) ==
    IF s # <<>> /\ s[Len(s)] = Space
    THEN TrimRight(SubSeq(s, 1, Len(s) - 1))
    ELSE s

Trim(s) == TrimRight(TrimLeft(s))

(* The two replace() calls, lines 42-43. *)
ReplaceQuotes(s) ==
    [i \in 1..Len(s) |->
        IF s[i] \in {LeftSingle, RightSingle} THEN SingleQuote
        ELSE IF s[i] \in {LeftDouble, RightDouble} THEN DoubleQuote
        ELSE s[i]]

(* String.prototype.split(' '), line 44: the pieces between single spaces;
   the empty string gives one empty piece. *)
RECURSIVE Split(_)
Split(s) ==
    IF \A i \in 1..Len(s) : s[i] # Space THEN <<s>>
    ELSE LET k == CHOOSE i \in 1..Len(s) :
                      s[i] = Space /\ \A j \in 1..(i - 1) : s[j] # Space
         IN  <<SubSeq(s, 1, k - 1)>> \o Split(SubSeq(s, k + 1, Len(s)))

(* Array.prototype.join(' '), lines 71 and 81. *)
RECURSIVE Join(_)
Join(tokens) ==
    IF tokens = <<>> THEN <<>>
    ELSE IF Len(tokens) = 1 THEN tokens[1]
    ELSE tokens[1] \o <<Space>> \o Join(Tail(tokens))

(* No quote is open (quote === null). *)
NoQuote == "null"

(* token[0] and token[token.length - 1]: undefined for the empty token. *)
FirstChar(token) == IF token = <<>> THEN Undefined ELSE token[1]
LastChar(token) == IF token = <<>> THEN Undefined ELSE token[Len(token)]

(* token.slice(1, -1), token.slice(1), token.slice(0, -1). *)
SliceBoth(token) == SubSeq(token, 2, Len(token) - 1)
SliceFirst(token) == SubSeq(token, 2, Len(token))
SliceLast(token) == SubSeq(token, 1, Len(token) - 1)

(* Variant of SplitStep used to test the claims' sensitivity. *)
SplitStep_keepquote(st, token) ==
    IF st.quote = NoQuote
    THEN IF FirstChar(token) = DoubleQuote \/ FirstChar(token) = SingleQuote
         THEN IF LastChar(token) = FirstChar(token)
              THEN [st EXCEPT !.args = Append(@, SliceBoth(token))]
              ELSE [st EXCEPT !.quote = FirstChar(token),
                              !.quotedstring = <<SliceFirst(token)>>]
         ELSE [st EXCEPT !.args = Append(@, token)]
    ELSE IF LastChar(token) = st.quote
         THEN [quote |-> NoQuote,
               quotedstring |-> <<>>,
               args |-> Append(st.args,
                               Join(Append(st.quotedstring, token)))]
         ELSE [st EXCEPT !.quotedstring = Append(@, token)]

(* The body of the forEach callback, lines 49-77, on the state
   [quote, quotedstring, args]. *)
SplitStep(st, token) ==
    IF st.quote = NoQuote
    THEN IF FirstChar(token) = DoubleQuote \/ FirstChar(token) = SingleQuote
         THEN IF LastChar(token) = FirstChar(token)
              THEN [st EXCEPT !.args = Append(@, SliceBoth(token))]
              ELSE [st EXCEPT !.quote = FirstChar(token),
                              !.quotedstring = <<SliceFirst(token)>>]
         ELSE [st EXCEPT !.args = Append(@, token)]
    ELSE IF LastChar(token) = st.quote
         THEN [quote |-> NoQuote,
               quotedstring |-> <<>>,
               args |-> Append(st.args,
                               Join(Append(st.quotedstring, SliceLast(token))))]
         ELSE [st EXCEPT !.quotedstring = Append(@, token)]

RECURSIVE SplitWalk(_, _)
SplitWalk(st, tokens) ==
    IF tokens = <<>> THEN st
    ELSE SplitWalk(SplitStep(st, Head(tokens)), Tail(tokens))

(* Variant of splitArgs used to test the claims' sensitivity. *)
splitArgs_dropopen(message) ==
    LET split == Split(ReplaceQuotes(Trim(message)))
        st == SplitWalk([quote |-> NoQuote, quotedstring |-> <<>>,
                         args |-> <<>>], split)
    IN  st.args

(* splitArgs(message), lines 38-85. *)
splitArgs(message) ==
    LET split == Split(ReplaceQuotes(Trim(message)))
        st == SplitWalk([quote |-> NoQuote, quotedstring |-> <<>>,
                         args |-> <<>>], split)
    IN  IF Len(st.quotedstring) # 0
        THEN Append(st.args, Join(st.quotedstring))
        ELSE st.args

(* The value of splitCall while splitArgs has not been called. *)
NoCall == [kind |-> "none"]

(* The characters of the texts handed to splitArgs, and the texts. *)
SplitAlphabet == {"a", Space, DoubleQuote, SingleQuote, LeftDouble}

SplitInputs == UNION {[1..n -> SplitAlphabet] : n \in 0..MaxLen}

(* History: the time and the raw second argument of the most recent
   squelch call made for each room, and whether the room was squelched
   when that call was made. *)
RecordCall(calls, timers, room, arg, t) ==
    [r \in DOMAIN calls \cup {room} |->
        IF r = room
        THEN [time |-> t, arg |-> arg, renewed |-> squelched(timers, room, t)]
        ELSE calls[r]]

(* The value of pass while no dispatch pass has just completed. *)
NoPass == [kind |-> "none"]

(***************************************************************************)
(* Initial state: the fields set by the constructor, lines 7-18.           *)
(***************************************************************************)
Init ==
    /\ commands = <<>>
    /\ listeners = <<>>
    /\ squelch_timers = <<>>
    /\ now = 0
    /\ lastCall = <<>>
    /\ pass = NoPass
    /\ splitCall = NoCall

(* The service as constructed, about to be handed one text to split. *)
InitSplit ==
    /\ commands = <<>>
    /\ listeners = <<>>
    /\ squelch_timers = <<>>
    /\ now = 0
    /\ lastCall = <<>>
    /\ pass = NoPass
    /\ splitCall \in {[kind |-> "input", message |-> m] : m \in SplitInputs}

(* The wall clock read by moment() advances, up to limit. *)
TickTo(limit) ==
    /\ pass = NoPass
    /\ now + TickStep <= limit
    /\ now' = now + TickStep
    /\ UNCHANGED <<commands, listeners, squelch_timers, lastCall, pass, splitCall>>

Tick == TickTo(MaxTime)

SquelchTick == TickTo(MaxSquelchTime)

(***************************************************************************)
(* Registration, lines 20-35.  func is the handler bound at registration;  *)
(* the model names it by the position of its entry.                        *)
(***************************************************************************)

(* The triggers plugins register, as literal patterns. *)
CommandTriggers == {<<>>, <<"a">>, <<"a", "b">>}
ListenerTriggers == {<<"a">>, <<"a", "b">>}

(* loadCommand(spec), lines 21-27. *)
LoadCommand ==
    /\ pass = NoPass
    /\ Len(commands) < MaxCommands
    /\ \E trigger \in CommandTriggers, core \in BOOLEAN :
           commands' = Append(commands, [trigger |-> trigger, core |-> core,
                                         func |-> Len(commands) + 1])
    /\ UNCHANGED <<listeners, squelch_timers, now, lastCall, pass, splitCall>>

(* loadListener(spec), lines 30-35. *)
LoadListener ==
    /\ pass = NoPass
    /\ Len(listeners) < MaxListeners
    /\ \E trigger \in ListenerTriggers :
           listeners' = Append(listeners, [trigger |-> trigger,
                                           func |-> Len(listeners) + 1])
    /\ UNCHANGED <<commands, squelch_timers, now, lastCall, pass, splitCall>>

(***************************************************************************)
(* The address prompts, lines 12-14: one regular expression                *)
(* '^@?' + name + ':? ' for each name of bot.config.responds_to.           *)
(***************************************************************************)
responds_to == << <<"f">>, <<"f", " ", "f">> >>

(* The texts '^@?' + name + ':? ' can match, in the order the
   backtracking matcher tries them (both ? are greedy). *)
PromptForms(name) ==
    << <<"@">> \o name \o <<":", " ">>,
       <<"@">> \o name \o <<" ">>,
       name \o <<":", " ">>,
       name \o <<" ">> >>

(* message.match(prompt): the matched text (matched[0]), or null. *)
PromptMatch(name, message) ==
    LET forms == PromptForms(name)
        hits == {k \in 1..Len(forms) : OccursAt(forms[k], message, 0)}
    IN  IF hits = {} THEN Null
        ELSE [index |-> 0,
              text |-> forms[CHOOSE k \in hits : \A j \in hits : k <= j]]

(* Variant of StripPrompt used to test the claims' sensitivity. *)
StripPrompt_last(room, message) ==
    LET hits == {i \in 1..Len(responds_to) :
                     PromptMatch(responds_to[i], message) # Null}
    IN  IF hits = {}
        THEN [isCommand |-> (room = NullRoom), message |-> message]
        ELSE LET i == CHOOSE k \in hits : \A j \in hits : k >= j
                 matched == PromptMatch(responds_to[i], message)
             IN  [isCommand |-> TRUE,
                  message |-> Slice(message, Len(matched.text))]

(* Lines 113-125: isCommand and the working text after the loop over the
   prompts, which stops at the first prompt that matches. *)
StripPrompt(room, message) ==
    LET hits == {i \in 1..Len(responds_to) :
                     PromptMatch(responds_to[i], message) # Null}
    IN  IF hits = {}
        THEN [isCommand |-> (room = NullRoom), message |-> message]
        ELSE LET i == CHOOSE k \in hits : \A j \in hits : k <= j
                 matched == PromptMatch(responds_to[i], message)
             IN  [isCommand |-> TRUE,
                  message |-> Slice(message, Len(matched.text))]

(***************************************************************************)
(* One dispatch pass.  JavaScript runs handleMessage to completion, so the *)
(* pass is one step of the model; inside it the wall clock may advance     *)
(* between two reads of moment(), and every handler the pass calls may     *)
(* return either value, throw, or call squelch() for the route's room.     *)
(* The operators below map the state p of a pass in progress to the set    *)
(* of states it can end in.  The fields of p:                              *)
(*   room, original      the arguments route.room and message              *)
(*   isCommand, message  the locals of handleMessage                       *)
(*   t, timers, calls    the clock, squelch_timers and the call history    *)
(*   t0, timers0         the clock and squelch_timers when the pass began  *)
(*   matches             the command matches pushed at line 137            *)
(*   order               the listener matches in the order of the loop     *)
(*                       of lines 184-188                                  *)
(*   invoked             the handler calls made, in order                  *)
(*   replies             the replies the engine sent, in order             *)
(*   error               "none", or the error that ended the pass          *)
(***************************************************************************)

(* A read of moment(): no earlier than the previous read. *)
ClockRead(p) ==
    {p} \cup (IF p.t + TickStep <= MaxTime
              THEN {[p EXCEPT !.t = @ + TickStep]}
              ELSE {})

(* What a handler may do besides returning. *)
CommandEffects == {"none", "squelch", "unsquelch", "throw"}
ListenerEffects == {"none", "squelch", "throw"}

(* What a call of a listener handler may do and return; a call that
   throws returns nothing, and its ret is recorded as FALSE. *)
ListenerBehaviours ==
    {b \in [effect : ListenerEffects, ret : BOOLEAN] :
        b.effect = "throw" => ~b.ret}

(* The handler calls this.squelch(route.room, true) or
   this.squelch(route.room, false) on the bot's intent service.  Handlers
   call it for the room of a group conversation: on a direct-message route
   the call would only store a moment under the key "null", which
   squelched() reads for no route (SquelchCall covers that call). *)
ApplyEffect(p, effect) ==
    IF effect \in {"squelch", "unsquelch"} /\ p.room # NullRoom
    THEN LET arg == IF effect = "squelch" THEN "true" ELSE "false"
         IN  [p EXCEPT !.timers = squelch(p.timers, p.room, arg, p.t),
                       !.calls = RecordCall(p.calls, p.timers, p.room, arg,
                                            p.t)]
    ELSE p

Reply(p, via, key) ==
    [p EXCEPT !.replies = Append(@, [via |-> via, key |-> key])]

(* Variants of Fallback used to test the claims' sensitivity. *)
Fallback_swapped(p) ==
    IF p.isCommand
    THEN {IF squelched(q.timers, q.room, q.t)
          THEN Reply(q, "route", "?command_not_found")
          ELSE Reply(q, "direct", "?command_but_silenced") : q \in ClockRead(p)}
    ELSE {p}

Fallback_always(p) ==
    {IF squelched(q.timers, q.room, q.t)
     THEN Reply(q, "direct", "?command_but_silenced")
     ELSE Reply(q, "route", "?command_not_found") : q \in ClockRead(p)}

(* Lines 192-199: the fallback reply. *)
Fallback(p) ==
    IF p.isCommand
    THEN {IF squelched(q.timers, q.room, q.t)
          THEN Reply(q, "direct", "?command_but_silenced")
          ELSE Reply(q, "route", "?command_not_found") : q \in ClockRead(p)}
    ELSE {p}

(* Lines 166-174: the matches of the listeners, in registration order. *)
ListenerMatches(message) ==
    LET hit == {i \in 1..Len(listeners) :
                    exec(listeners[i].trigger, message) # Null}
        F[i \in 0..Len(listeners)] ==
            IF i = 0 THEN <<>>
            ELSE IF i \in hit
                 THEN Append(F[i - 1],
                             [index |-> exec(listeners[i].trigger, message).index,
                              text |-> listeners[i].trigger,
                              func |-> listeners[i].func])
                 ELSE F[i - 1]
    IN  F[Len(listeners)]

(* Lines 180-182: the comparator returns a boolean, a[0].length >
   b[0].length, which sort() reads as 1 or 0 and never as negative. *)
Compare(a, b) == IF Len(a.text) > Len(b.text) THEN 1 ELSE 0

(* The insertion sort V8 used for short arrays before version 7.0:
   an element moves up while Compare(element before it, it) > 0. *)
RECURSIVE InsertSorted(_, _)
InsertSorted(sorted, element) ==
    IF sorted # <<>> /\ Compare(sorted[Len(sorted)], element) > 0
    THEN Append(InsertSorted(SubSeq(sorted, 1, Len(sorted) - 1), element),
                sorted[Len(sorted)])
    ELSE Append(sorted, element)

RECURSIVE InsertionSort(_)
InsertionSort(matches) ==
    IF matches = <<>> THEN <<>>
    ELSE InsertSorted(InsertionSort(SubSeq(matches, 1, Len(matches) - 1)),
                      matches[Len(matches)])

(* The binary insertion sort of V8 7.0 and later moves an element down
   only where the comparator is negative: with this comparator, never. *)
BinaryInsertionSort(matches) == matches

(* matches.sort(comparator), lines 180-182: the comparator is not a
   consistent comparison function, so the order is the engine's choice;
   these are the orders the two sorts of V8 give. *)
SortResults(matches) == {InsertionSort(matches), BinaryInsertionSort(matches)}

(* Variant of StopsLoop used to test the claims' sensitivity. *)
StopsLoop_never(ret) == FALSE

(* Line 185: a truthy return value ends the loop and the pass. *)
StopsLoop(ret) == ret

(* Variant of ReturnHandled used to test the claims' sensitivity. *)
ReturnHandled_fallback(p) == Fallback(p)

(* Line 186: return. *)
ReturnHandled(p) == {p}

(* One call of a listener handler, line 185: func(route, message). *)
ListenerCall(p, matched, effect, ret) ==
    [ApplyEffect(p, effect) EXCEPT
        !.invoked = Append(@, [kind |-> "listener", func |-> matched.func,
                               len |-> Len(matched.text),
                               arg |-> p.message, effect |-> effect,
                               ret |-> ret]),
        !.error = IF effect = "throw" THEN "handler" ELSE @]

(* Lines 184-188, from the i-th match on, then lines 192-199. *)
RECURSIVE RunListeners(_, _)
RunListeners(p, i) ==
    IF i > Len(p.order) THEN Fallback(p)
    ELSE UNION {
           LET q == ListenerCall(p, p.order[i], b.effect, b.ret)
           IN  IF b.effect = "throw" THEN {q}
               ELSE IF StopsLoop(b.ret) THEN ReturnHandled(q)
               ELSE RunListeners(q, i + 1)
           : b \in ListenerBehaviours }

(* Variants of ListenerGate used to test the claims' sensitivity. *)
ListenerGate_open(p) == TRUE

(* Line 164: listeners are processed unless the room is squelched. *)
ListenerGate(p) == ~squelched(p.timers, p.room, p.t)

(* Lines 163-199: the listeners, then the fallback. *)
ListenerStage(p) ==
    UNION {
      IF ListenerGate(q)
      THEN UNION {RunListeners([q EXCEPT !.order = order], 1) :
                      order \in SortResults(ListenerMatches(q.message))}
      ELSE Fallback(q)
      : q \in ClockRead(p) }

(* Variant of Admitted used to test the claims' sensitivity. *)
Admitted_unsquelched(command, p) == TRUE

(* Line 135: command.core || !this.squelched(route.room). *)
Admitted(command, p) ==
    command.core \/ ~squelched(p.timers, p.room, p.t)

(* Lines 129-142, from the i-th command on.  moment() is read only when
   squelched() is called, that is for a matching command that is not
   core. *)
RECURSIVE MatchCommands(_, _)
MatchCommands(p, i) ==
    IF i > Len(commands) THEN {p}
    ELSE LET command == commands[i]
             matched == exec(command.trigger, p.message)
         IN  IF matched # Null /\ matched.index = 0
             THEN UNION {
                    MatchCommands(
                        IF Admitted(command, q)
                        THEN [q EXCEPT !.matches =
                                 Append(@, [index |-> matched.index,
                                            text |-> matched.text,
                                            func |-> command.func])]
                        ELSE q,
                        i + 1)
                    : q \in (IF command.core THEN {p} ELSE ClockRead(p)) }
             ELSE MatchCommands(p, i + 1)

(* Variant of Longer used to test the claims' sensitivity. *)
Longer_or_equal(candidate, matched) ==
    Len(candidate.text) >= Len(matched.text)

(* Line 150: matches[i][0].length > matched[0].length. *)
Longer(candidate, matched) == Len(candidate.text) > Len(matched.text)

(* Lines 145-153: matched = [''], an array without index and func, then
   the loop that keeps the longest match. *)
RECURSIVE PickLongest(_, _, _)
PickLongest(matches, i, matched) ==
    IF i > Len(matches) THEN matched
    ELSE PickLongest(matches, i + 1,
                     IF Longer(matches[i], matched) THEN matches[i]
                     ELSE matched)

(* Variant of ReturnMatched used to test the claims' sensitivity. *)
ReturnMatched_listeners(p) == ListenerStage(p)

(* Lines 158-159: return. *)
ReturnMatched(p) == {p}

(* Line 156: matched.func(route, this.splitArgs(message.slice(
   matched[0].length))).  Calling the undefined func of [''] throws a
   TypeError. *)
CommandCall(p, matched) ==
    IF "func" \notin DOMAIN matched
    THEN {[p EXCEPT !.error = "TypeError"]}
    ELSE UNION {
           LET q == [ApplyEffect(p, effect) EXCEPT
                       !.invoked = Append(@,
                           [kind |-> "command", func |-> matched.func,
                            len |-> Len(matched.text),
                            arg |-> splitArgs(Slice(p.message,
                                                    Len(matched.text))),
                            effect |-> effect]),
                       !.error = IF effect = "throw" THEN "handler" ELSE @]
           IN  IF effect = "throw" THEN {q} ELSE ReturnMatched(q)
           : effect \in CommandEffects }

(* Lines 127-161, then the rest of handleMessage. *)
CommandStage(p) ==
    IF p.isCommand
    THEN UNION {
           IF Len(q.matches) # 0
           THEN CommandCall(q, PickLongest(q.matches, 1, [text |-> <<>>]))
           ELSE ListenerStage(q)
           : q \in MatchCommands(p, 1) }
    ELSE ListenerStage(p)

(* handleMessage(route, message), lines 111-200, with route.room = room,
   entered at time t with the table timers. *)
DispatchPass(room, message, timers, calls, t) ==
    LET stripped == StripPrompt(room, message)
    IN  CommandStage([kind |-> "pass",
                      room |-> room, original |-> message,
                      isCommand |-> stripped.isCommand,
                      message |-> stripped.message,
                      t |-> t, timers |-> timers, calls |-> calls,
                      t0 |-> t, timers0 |-> timers,
                      matches |-> <<>>, order |-> <<>>,
                      invoked |-> <<>>, replies |-> <<>>,
                      error |-> "none", pending |-> 0])

(* Variant of DomainError used to test the claims' sensitivity. *)
DomainError_direct(p) ==
    IF p.error # "none"
    THEN IF squelched(p.timers, p.room, p.t)
         THEN Reply(p, "direct", "?generic_error")
         ELSE Reply(p, "route", "?generic_error")
    ELSE p

(* Variant of DomainError used to test the claims' sensitivity. *)
DomainError_squelch(p) ==
    IF p.error # "none"
    THEN [Reply(p, "route", "?generic_error") EXCEPT
             !.timers = squelch(p.timers, p.room, "true", p.t)]
    ELSE p

(* Lines 208-211: the domain's error handler sends the generic reply on
   the route for an error thrown during the pass. *)
DomainError(p) ==
    IF p.error # "none" THEN Reply(p, "route", "?generic_error") ELSE p

(* The rooms of the routes messages arrive on, and the messages. *)
RouteRooms == {"r1", NullRoom}
Messages ==
    { <<"a", "b">>,
      <<"f", " ", "a", "b">>,
      <<"f", " ", "x">>,
      <<"f", " ", "f", " ", "a", "b">>,
      <<"x">> }

(* An arrival of a message, lines 203-216: the pass runs inside a fresh
   domain, whose error handler answers an error thrown during the pass.
   Each handler the pass invoked may have started asynchronous work bound
   to the domain; at most maxPending of these continuations are still to
   run when handleMessage returns. *)
HandleMessageWith(maxPending) ==
    /\ pass = NoPass
    /\ \E room \in RouteRooms, message \in Messages :
           \E p \in DispatchPass(room, message, squelch_timers, lastCall,
                                 now) :
               LET q == DomainError(p)
               IN  /\ \E n \in 0..maxPending :
                          /\ n <= Len(q.invoked)
                          /\ pass' = [q EXCEPT !.pending = n]
                   /\ squelch_timers' = q.timers
                   /\ lastCall' = q.calls
                   /\ now' = q.t
                   /\ UNCHANGED <<commands, listeners, splitCall>>

(* A message whose handlers do all their work synchronously. *)
HandleMessage == HandleMessageWith(0)

(* A message whose handlers may leave continuations behind. *)
HandleMessageAsync == HandleMessageWith(MaxPending)

(* A continuation of the message's domain raises an error: the error
   handler of lines 208-211 runs again. *)
ContinuationError ==
    /\ pass # NoPass
    /\ pass.pending > 0
    /\ pass' = Reply([pass EXCEPT !.pending = @ - 1], "route",
                     "?generic_error")
    /\ UNCHANGED <<commands, listeners, squelch_timers, now, lastCall, splitCall>>

(* A continuation of the message's domain completes without error. *)
ContinuationDone ==
    /\ pass # NoPass
    /\ pass.pending > 0
    /\ pass' = [pass EXCEPT !.pending = @ - 1]
    /\ UNCHANGED <<commands, listeners, squelch_timers, now, lastCall, splitCall>>

(* handleMessage has returned to the event loop: the record of the pass
   is dropped. *)
Return ==
    /\ pass # NoPass
    /\ pass' = NoPass
    /\ UNCHANGED <<commands, listeners, squelch_timers, now, lastCall, splitCall>>

(* A call of squelch(room, arg) or squelch(room), lines 87-99. *)
SquelchCall ==
    \E room \in Rooms \cup {NullRoom}, arg \in SquelchArgs :
        /\ squelch_timers' = squelch(squelch_timers, room, arg, now)
        /\ lastCall' = RecordCall(lastCall, squelch_timers, room, arg, now)
        /\ UNCHANGED <<commands, listeners, now, pass, splitCall>>

(* The intent service in operation: plugins register, messages arrive,
   time passes; squelch() is called by the handlers. *)
Next == LoadCommand \/ LoadListener \/ HandleMessage \/ Return \/ Tick

Spec == Init /\ [][Next]_vars

(* The intent service with handlers that work asynchronously. *)
NextAsync ==
    \/ LoadCommand
    \/ LoadListener
    \/ HandleMessageAsync
    \/ ContinuationError
    \/ ContinuationDone
    \/ Return
    \/ Tick

SpecAsync == Init /\ [][NextAsync]_vars

(* A call of splitArgs(message), lines 37-85, with its result. *)
SplitArgsCall ==
    /\ splitCall.kind = "input"
    /\ splitCall' = [kind |-> "result",
                     message |-> splitCall.message,
                     args |-> splitArgs(splitCall.message)]
    /\ UNCHANGED <<commands, listeners, squelch_timers, now, lastCall, pass>>

(* splitArgs alone, applied to each of the texts. *)
SpecSplit == InitSplit /\ [][SplitArgsCall]_vars

(* The squelch table alone, driven by direct calls of squelch(). *)
NextSquelch == SquelchCall \/ SquelchTick

SpecSquelch == Init /\ [][NextSquelch]_vars

(***************************************************************************)
(* Claims about the squelch table.                                         *)
(***************************************************************************)

(* C1: for every room of a group conversation, squelched(room) read now is
   true exactly when the most recent squelch call for that room passed true
   (or no second argument) and was made less than 10 minutes ago; so
   squelch(room, true) holds at once and lapses when 10 minutes have
   elapsed, squelch(room, false) clears at once, and a repeated
   squelch(room, true) restarts the window at the time of the repeat. *)
C1_SquelchWindow ==
    \A room \in Rooms :
        squelched(squelch_timers, room, now)
            <=> /\ room \in DOMAIN lastCall
                /\ lastCall[room].arg \in {"true", Undefined}
                /\ now < lastCall[room].time + 10

(* C1 witness: room r1 was squelched again while already squelched, and
   exactly 10 minutes after the repeat it is no longer squelched, while r2,
   squelched at this moment with the default argument, is. *)
C1_Witness ==
    /\ "r1" \in DOMAIN lastCall
    /\ lastCall["r1"].arg = "true"
    /\ lastCall["r1"].renewed
    /\ lastCall["r1"].time = 5
    /\ now = 15
    /\ ~squelched(squelch_timers, "r1", now)
    /\ "r2" \in DOMAIN lastCall
    /\ lastCall["r2"].time = 15
    /\ lastCall["r2"].arg = Undefined
    /\ squelched(squelch_timers, "r2", now)

(* C2: squelched(null) is false in every reachable state. *)
C2_NullNeverSquelched ==
    ~squelched(squelch_timers, NullRoom, now)

(* C2 witness: squelch(null, true) was called less than 10 minutes ago and
   its moment is still stored in the table, in the future. *)
C2_Witness ==
    /\ NullRoom \in DOMAIN lastCall
    /\ lastCall[NullRoom].arg = "true"
    /\ PropertyKey(NullRoom) \in DOMAIN squelch_timers
    /\ squelch_timers[PropertyKey(NullRoom)] > now
    /\ ~squelched(squelch_timers, NullRoom, now)

(***************************************************************************)
(* Claims about a dispatch pass.  They are stated over pass, the record of *)
(* the pass that has just run to completion; in that state now and         *)
(* squelch_timers are the clock and the table as the pass left them.       *)
(***************************************************************************)
IsPass == pass.kind = "pass"

CommandCalls == {i \in DOMAIN pass.invoked : pass.invoked[i].kind = "command"}
ListenerCalls == {i \in DOMAIN pass.invoked : pass.invoked[i].kind = "listener"}

FallbackKeys == {"?command_not_found", "?command_but_silenced"}
FallbackReplies == {i \in DOMAIN pass.replies : pass.replies[i].key \in FallbackKeys}

(* The k-th registered command matches the working text at offset 0. *)
TriggerMatchesAtStart(k) ==
    /\ exec(commands[k].trigger, pass.message) # Null
    /\ exec(commands[k].trigger, pass.message).index = 0

(* C3: when commands are candidates for a message, the command handler
   that is invoked belongs to the candidate with the longest matched
   substring, the first registered of those that tie for the longest, and
   no other command handler is invoked for the message. *)
C3_LongestFirstRegistered ==
    IsPass =>
        /\ Cardinality(CommandCalls) <= 1
        /\ \A i \in CommandCalls :
               \E k \in DOMAIN pass.matches :
                   /\ pass.matches[k].func = pass.invoked[i].func
                   /\ pass.invoked[i].len = Len(pass.matches[k].text)
                   /\ \A j \in DOMAIN pass.matches :
                          \/ Len(pass.matches[j].text) < Len(pass.matches[k].text)
                          \/ /\ Len(pass.matches[j].text) = Len(pass.matches[k].text)
                             /\ pass.matches[j].func >= pass.matches[k].func

(* C3 witness: two commands are candidates, the one registered first with
   the shorter match, and the handler of the second is the one invoked. *)
C3_Witness ==
    /\ IsPass
    /\ Len(pass.matches) = 2
    /\ Len(pass.matches[1].text) = 1
    /\ Len(pass.matches[2].text) = 2
    /\ Len(pass.invoked) = 1
    /\ pass.invoked[1].kind = "command"
    /\ pass.invoked[1].func = pass.matches[2].func

(* C4: in a pass for a room that is squelched from its beginning to its
   end, every handler invoked is the handler of a core command (no
   non-core command handler, no listener handler), and when the message is
   flagged as a command every core command whose trigger matches it at
   offset 0 is still a candidate. *)
C4_SquelchedOnlyCore ==
    (IsPass /\ squelched(pass.timers0, pass.room, now)) =>
        /\ \A i \in DOMAIN pass.invoked :
               /\ pass.invoked[i].kind = "command"
               /\ commands[pass.invoked[i].func].core
        /\ \A k \in DOMAIN commands :
               (pass.isCommand /\ commands[k].core /\ TriggerMatchesAtStart(k)) =>
                   \E j \in DOMAIN pass.matches : pass.matches[j].func = k

(* C4 witness: the room is squelched, a non-core command registered first
   and a core command have the same trigger, which matches at offset 0, a
   listener trigger matches too, and the one handler invoked is the core
   command's. *)
C4_Witness ==
    /\ IsPass
    /\ pass.isCommand
    /\ squelched(pass.timers0, pass.room, now)
    /\ Len(commands) = 2
    /\ ~commands[1].core
    /\ commands[2].core
    /\ commands[1].trigger = commands[2].trigger
    /\ commands[1].trigger # <<>>
    /\ TriggerMatchesAtStart(1)
    /\ ListenerMatches(pass.message) # <<>>
    /\ Len(pass.invoked) = 1
    /\ pass.invoked[1].kind = "command"
    /\ pass.invoked[1].func = 2

(* C5: if a command handler was invoked, the pass ended there: no listener
   handler was invoked and no fallback reply was sent. *)
C5_CommandEndsPass ==
    (IsPass /\ CommandCalls # {}) =>
        /\ ListenerCalls = {}
        /\ FallbackReplies = {}

(* C5 witness: a command handler was invoked and returned, in a room that
   is not squelched, for a message that listener triggers match too. *)
C5_Witness ==
    /\ IsPass
    /\ CommandCalls # {}
    /\ pass.error = "none"
    /\ pass.room # NullRoom
    /\ ~squelched(squelch_timers, pass.room, now)
    /\ Len(ListenerMatches(pass.message)) = 2

(* C6: the listener candidates are invoked one at a time in the order of
   the loop, each at most once; only the last call made can have returned
   a truthy value, and when every call returned a falsy value every
   candidate was invoked. *)
C6_ListenersStopAtFirstTrue ==
    (IsPass /\ ListenerCalls # {}) =>
        /\ ListenerCalls = 1..Len(pass.invoked)
        /\ Len(pass.invoked) <= Len(pass.order)
        /\ \A i \in ListenerCalls : pass.invoked[i].func = pass.order[i].func
        /\ \A i, j \in ListenerCalls :
               pass.invoked[i].func = pass.invoked[j].func => i = j
        /\ \A i \in ListenerCalls :
               pass.invoked[i].ret => i = Len(pass.invoked)
        /\ (pass.error = "none" /\ \A i \in ListenerCalls : ~pass.invoked[i].ret)
               => Len(pass.invoked) = Len(pass.order)

(* C6 witness: two listeners are candidates, the first called returned
   true and the second was not called. *)
C6_Witness ==
    /\ IsPass
    /\ Len(pass.order) = 2
    /\ Len(pass.invoked) = 1
    /\ pass.invoked[1].kind = "listener"
    /\ pass.invoked[1].ret

(* C7: of two listeners invoked for the same message, the one invoked
   earlier has a matched substring at least as long as the one invoked
   later. *)
C7_ListenersLongestFirst ==
    IsPass =>
        \A i, j \in ListenerCalls :
            i < j => pass.invoked[i].len >= pass.invoked[j].len

(* C8: a message flagged as a command for which no command is a candidate
   and no listener trigger matches gets exactly one reply: the silenced
   reply through route.direct() when the room is squelched, otherwise the
   not-found reply through the route. *)
C8_OneFallback ==
    (/\ IsPass
     /\ pass.isCommand
     /\ pass.matches = <<>>
     /\ ListenerMatches(pass.message) = <<>>) =>
        pass.replies =
            << IF squelched(squelch_timers, pass.room, now)
               THEN [via |-> "direct", key |-> "?command_but_silenced"]
               ELSE [via |-> "route", key |-> "?command_not_found"] >>

(* C8 witness: a message addressed to the bot in a squelched room matches
   no trigger of the two commands and the listener registered, and the one
   reply is the silenced reply through route.direct(). *)
C8_Witness ==
    /\ IsPass
    /\ pass.isCommand
    /\ pass.room # NullRoom
    /\ squelched(squelch_timers, pass.room, now)
    /\ Len(commands) = 2
    /\ Len(listeners) >= 1
    /\ \A k \in DOMAIN commands : ~TriggerMatchesAtStart(k)
    /\ ListenerMatches(pass.message) = <<>>
    /\ pass.replies = <<[via |-> "direct", key |-> "?command_but_silenced"]>>

(* C9 as stated: if a message was flagged as a command and no command
   matched, a fallback reply is sent whether or not a listener ran. *)
C9_Original_FallbackAlways ==
    (IsPass /\ pass.isCommand /\ pass.matches = <<>>) =>
        FallbackReplies # {}

(* C9 as amended: if a message was flagged as a command and no command
   matched, exactly one fallback reply is sent unless a listener handler
   ended the pass by returning a truthy value or by throwing, and then
   none is sent; listeners that ran and returned falsy values do not
   prevent it. *)
C9_FallbackUnlessHandled ==
    (IsPass /\ pass.isCommand /\ pass.matches = <<>>) =>
        IF \E i \in ListenerCalls :
               pass.invoked[i].ret \/ pass.invoked[i].effect = "throw"
        THEN FallbackReplies = {}
        ELSE Cardinality(FallbackReplies) = 1

(* C9 witness: no command matched a message flagged as a command, two
   listeners ran and returned falsy values, and the not-found reply was
   sent. *)
C9_Witness ==
    /\ IsPass
    /\ pass.isCommand
    /\ pass.matches = <<>>
    /\ Len(pass.invoked) = 2
    /\ \A i \in DOMAIN pass.invoked :
           pass.invoked[i].kind = "listener" /\ ~pass.invoked[i].ret
    /\ pass.replies = <<[via |-> "route", key |-> "?command_not_found"]>>

(* C10: for a message not flagged as a command (the route has a room and
   no address prompt matches the start of the text) no fallback reply is
   sent and no command handler is invoked, whatever the listeners do. *)
C10_NotCommandNoFallback ==
    (/\ IsPass
     /\ pass.room # NullRoom
     /\ \A n \in DOMAIN responds_to :
            PromptMatch(responds_to[n], pass.original) = Null) =>
        /\ FallbackReplies = {}
        /\ CommandCalls = {}

(* C10 witness: a message in a room without an address prompt, whose text
   a registered command trigger matches at offset 0; a listener ran and
   returned a falsy value, and the engine sent nothing. *)
C10_Witness ==
    /\ IsPass
    /\ pass.room # NullRoom
    /\ \A n \in DOMAIN responds_to :
           PromptMatch(responds_to[n], pass.original) = Null
    /\ \E k \in DOMAIN commands :
           commands[k].trigger # <<>> /\ TriggerMatchesAtStart(k)
    /\ Len(pass.invoked) >= 1
    /\ \A i \in DOMAIN pass.invoked : ~pass.invoked[i].ret
    /\ pass.error = "none"
    /\ pass.replies = <<>>

(***************************************************************************)
(* Claims about the domain wrapper.                                        *)
(***************************************************************************)

(* C11: a pass that an error ended, and whose handlers did nothing to the
   squelch state themselves, leaves the command list, the listener list,
   the squelch table and the record of squelch calls as they were; these,
   with the clock, are all that the dispatch of the next message reads,
   so the next message is dispatched as from the state before the failed
   message. *)
C11_FaultLeavesEngineIntact ==
    [][(/\ pass'.kind = "pass"
        /\ pass'.error # "none"
        /\ \A i \in 1..Len(pass'.invoked) :
               pass'.invoked[i].effect \in {"none", "throw"}) =>
          /\ commands' = commands
          /\ listeners' = listeners
          /\ squelch_timers' = squelch_timers
          /\ lastCall' = lastCall]_vars

(* C11 witness: in a squelched room, with two commands and a listener
   registered, the handler of a core command threw and the generic reply
   was sent. *)
C11_Witness ==
    /\ IsPass
    /\ pass.error = "handler"
    /\ Len(pass.invoked) = 1
    /\ pass.invoked[1].kind = "command"
    /\ squelched(squelch_timers, pass.room, now)
    /\ Len(commands) = 2
    /\ Len(listeners) >= 1
    /\ pass.replies = <<[via |-> "route", key |-> "?generic_error"]>>

(* The generic failure replies sent for the message of the pass. *)
GenericReplies ==
    SelectSeq(pass.replies, LAMBDA r : r.key = "?generic_error")

(* C12: for one message at most one generic failure reply is sent,
   whether its handlers fail during the pass or in continuations they
   left behind, and when a handler threw during the pass the thrower is
   the last handler invoked and no fallback reply is sent. *)
C12_CaughtOncePerMessage ==
    IsPass =>
        /\ Len(GenericReplies) <= 1
        /\ pass.error = "handler" =>
               /\ pass.invoked # <<>>
               /\ pass.invoked[Len(pass.invoked)].effect = "throw"
               /\ \A i \in 1..(Len(pass.invoked) - 1) :
                      pass.invoked[i].effect # "throw"
               /\ FallbackReplies = {}

(***************************************************************************)
(* Claims about splitArgs.  They are stated over splitCall, the record of  *)
(* a call with its result.                                                 *)
(***************************************************************************)
IsSplit == splitCall.kind = "result"

(* C13: a text that is empty, or empty once trimmed, is split into the
   empty sequence of arguments. *)
C13_EmptyGivesNoArguments ==
    (IsSplit /\ Trim(splitCall.message) = <<>>) => splitCall.args = <<>>

(* The space-separated tokens of the text of the call, once trimmed and
   with the typographic quotes replaced. *)
CallTokens == Split(ReplaceQuotes(Trim(splitCall.message)))

(* The token starts with a quote character; the token ends with the
   character c. *)
OpensSpan(token) ==
    token # <<>> /\ token[1] \in {SingleQuote, DoubleQuote}

EndsWith(token, c) == token # <<>> /\ token[Len(token)] = c

(* The tokens at which the span opened by token i can close: token i
   itself or a later one, ending with the quote character that opened. *)
Closers(tokens, i) ==
    {j \in i..Len(tokens) : EndsWith(tokens[j], tokens[i][1])}

First(S) == CHOOSE j \in S : \A k \in S : j <= k

(* The arguments the tokens from i on stand for: a closed span is one
   argument, its tokens joined by single spaces without the opening and
   the closing quote; a span left open is one final argument, the rest of
   the tokens joined without the opening quote; any other token is an
   argument as it is. *)
RECURSIVE SpanArgs(_, _)
SpanArgs(tokens, i) ==
    IF i > Len(tokens) THEN <<>>
    ELSE IF ~OpensSpan(tokens[i])
    THEN <<tokens[i]>> \o SpanArgs(tokens, i + 1)
    ELSE IF Closers(tokens, i) = {}
    THEN LET span == Join(SubSeq(tokens, i, Len(tokens)))
         IN  <<SubSeq(span, 2, Len(span))>>
    ELSE LET j == First(Closers(tokens, i))
             span == Join(SubSeq(tokens, i, j))
         IN  <<SubSeq(span, 2, Len(span) - 1)>> \o SpanArgs(tokens, j + 1)

(* A quote opened at or after token i is still open at the end. *)
RECURSIVE LeftOpen(_, _)
LeftOpen(tokens, i) ==
    /\ i <= Len(tokens)
    /\ IF ~OpensSpan(tokens[i]) THEN LeftOpen(tokens, i + 1)
       ELSE \/ Closers(tokens, i) = {}
            \/ LeftOpen(tokens, First(Closers(tokens, i)) + 1)

(* C14: when every quote opened in the text is closed, the arguments are
   exactly: one argument for each quoted span, from the token starting
   with a quote to the first token (possibly the same) ending with that
   quote character, joined by single spaces with the opening and the
   closing quote removed, and one argument for every other token as it
   is, all in the order of the text. *)
C14_QuotedSpanIsOneArgument ==
    (IsSplit /\ ~LeftOpen(CallTokens, 1)) =>
        splitCall.args = SpanArgs(CallTokens, 1)

(* C14 witness: the text a, space, U+201C, a, space, a, double quote was
   split into a and the span a a. *)
C14_Witness ==
    /\ IsSplit
    /\ splitCall.message
           = <<"a", Space, LeftDouble, "a", Space, "a", DoubleQuote>>
    /\ splitCall.args = << <<"a">>, <<"a", Space, "a">> >>

(* The tokens of the arguments, in order. *)
RECURSIVE ArgTokens(_)
ArgTokens(args) ==
    IF args = <<>> THEN <<>>
    ELSE Split(Head(args)) \o ArgTokens(Tail(args))

(* C15: splitArgs returns for every text; when a quote is still open at
   the end the arguments are those of the tokens before it followed by
   one final argument, the tokens from the opening one on joined by single
   spaces without the opening quote; and the tokens of the arguments are
   the tokens of the text, one for one and in order, each as it is or
   without a quote character at its start, at its end or both. *)
C15_NoInputLost ==
    IsSplit =>
        /\ LeftOpen(CallTokens, 1) =>
               splitCall.args = SpanArgs(CallTokens, 1)
        /\ LET out == ArgTokens(splitCall.args)
               inp == CallTokens
           IN  /\ Len(out) = Len(inp)
               /\ \A i \in 1..Len(inp) :
                      out[i] \in {inp[i],
                                  SubSeq(inp[i], 2, Len(inp[i])),
                                  SubSeq(inp[i], 1, Len(inp[i]) - 1),
                                  SubSeq(inp[i], 2, Len(inp[i]) - 1)}

(* C15 witness: in a 'a a the quote is never closed; the result is a
   followed by the one argument a a. *)
C15_Witness ==
    /\ IsSplit
    /\ splitCall.message = <<"a", Space, SingleQuote, "a", Space, "a">>
    /\ LeftOpen(CallTokens, 1)
    /\ splitCall.args = << <<"a">>, <<"a", Space, "a">> >>

(***************************************************************************)
(* Further claims about a dispatch pass.                                   *)
(***************************************************************************)

(* C16: when the command stage of a pass found at least one candidate,
   whatever the lengths of the matched substrings, the selection raises
   no error and exactly one handler is invoked, that of a candidate, with
   the arguments splitArgs gives for the text after its match; and the
   fallback replies are sent only when there was no candidate. *)
C16_OneCandidateInvoked ==
    IsPass =>
        /\ pass.matches # <<>> =>
               /\ pass.error # "TypeError"
               /\ Cardinality(CommandCalls) = 1
               /\ \A i \in CommandCalls :
                      /\ \E j \in DOMAIN pass.matches :
                             /\ pass.matches[j].func = pass.invoked[i].func
                             /\ Len(pass.matches[j].text) = pass.invoked[i].len
                      /\ pass.invoked[i].arg
                             = splitArgs(Slice(pass.message,
                                               pass.invoked[i].len))
        /\ FallbackReplies # {} => pass.matches = <<>>

(* C17: every listener handler a pass invokes belongs to a listener whose
   trigger matches the original text of the message, and is called with
   that original text, whether or not an address prompt was stripped for
   the command stage. *)
C17_ListenersGetOriginal ==
    IsPass =>
        \A i \in ListenerCalls :
            /\ exec(listeners[pass.invoked[i].func].trigger, pass.original)
                   # Null
            /\ pass.invoked[i].arg = pass.original

(* pre is the beginning of the text s; the rest of s after it. *)
BeginsWith(s, pre) == Len(pre) <= Len(s) /\ SubSeq(s, 1, Len(pre)) = pre

After(s, pre) == SubSeq(s, Len(pre) + 1, Len(s))

(* The texts that address the bot by name: an optional @, the name, an
   optional colon, one space. *)
Addresses(name) ==
    {at \o name \o colon \o <<Space>> :
        at \in {<<>>, <<"@">>}, colon \in {<<>>, <<":">>}}

(* The names of the configuration whose prompt the text begins with. *)
Addressed(s) ==
    {n \in 1..Len(responds_to) :
        \E pre \in Addresses(responds_to[n]) : BeginsWith(s, pre)}

(* C18: a message is flagged as a command exactly when its room is null
   or its text begins with an address of one of the configured names;
   the working text is then the original text without the address of the
   first such name in configuration order, removed once, and otherwise
   the original text; and every command the command stage retained has a
   trigger that matches at the very beginning of the working text. *)
C18_PromptStrippedOnce ==
    IsPass =>
        /\ pass.isCommand
               <=> (pass.room = NullRoom \/ Addressed(pass.original) # {})
        /\ Addressed(pass.original) = {} => pass.message = pass.original
        /\ Addressed(pass.original) # {} =>
               \E pre \in Addresses(responds_to[First(Addressed(pass.original))]) :
                   /\ BeginsWith(pass.original, pre)
                   /\ pass.message = After(pass.original, pre)
        /\ \A j \in DOMAIN pass.matches :
               BeginsWith(pass.message,
                          commands[pass.matches[j].func].trigger)
        /\ \A i \in CommandCalls :
               BeginsWith(pass.message,
                          commands[pass.invoked[i].func].trigger)

(* C18 witness: in a room, f f ab begins with the addresses of both
   names; the address of the first was removed, once, leaving f ab, which
   still begins with an address; the command with trigger ab, which occurs
   in f ab but not at its beginning, was not retained, and the command
   with the empty trigger was. *)
C18_Witness ==
    /\ IsPass
    /\ pass.room # NullRoom
    /\ pass.original = <<"f", " ", "f", " ", "a", "b">>
    /\ Addressed(pass.original) = {1, 2}
    /\ pass.isCommand
    /\ pass.message = <<"f", " ", "a", "b">>
    /\ Addressed(pass.message) # {}
    /\ \E k \in DOMAIN commands : commands[k].trigger = <<"a", "b">>
    /\ Len(pass.matches) = 1
    /\ commands[pass.matches[1].func].trigger = <<>>

(* The k-th registered command matched at offset 0 and was not retained:
   the squelch check of line 135 suppressed it. *)
Suppressed(k) ==
    /\ pass.isCommand
    /\ ~commands[k].core
    /\ TriggerMatchesAtStart(k)
    /\ \A j \in DOMAIN pass.matches : pass.matches[j].func # k

(* C19: a pass in which a matching non-core command was suppressed by the
   squelch check and no command was retained invokes no listener handler
   and sends exactly one reply, the silenced reply through
   route.direct(): the later squelch checks of the pass agree with the
   first. *)
C19_ChecksAgree ==
    (/\ IsPass
     /\ \E k \in DOMAIN commands : Suppressed(k)
     /\ pass.matches = <<>>) =>
        /\ ListenerCalls = {}
        /\ pass.replies =
               <<[via |-> "direct", key |-> "?command_but_silenced"]>>

(* The room of the pass is squelched from the beginning of the pass to
   its end. *)
SquelchedThroughout ==
    /\ squelched(pass.timers0, pass.room, pass.t0)
    /\ squelched(pass.timers0, pass.room, now)
    /\ squelched(squelch_timers, pass.room, now)

(* C20 as stated: in a pass for a room that is squelched from its
   beginning to its end, every reply the engine sends, a fallback reply
   or the generic failure reply, goes through route.direct(). *)
C20_Original_SquelchedRepliesDirect ==
    (IsPass /\ SquelchedThroughout) =>
        \A i \in DOMAIN pass.replies : pass.replies[i].via = "direct"

(* C20 as amended: in a pass for a room that is squelched from its
   beginning to its end, the only fallback reply the engine sends is the
   silenced reply through route.direct(), and the only reply it sends on
   the route itself is the generic failure reply, which it sends on the
   route whenever the pass ended in an error. *)
C20_OnlyFailureOnRoute ==
    (IsPass /\ SquelchedThroughout) =>
        /\ \A i \in DOMAIN pass.replies :
               pass.replies[i] \in
                   {[via |-> "direct", key |-> "?command_but_silenced"],
                    [via |-> "route", key |-> "?generic_error"]}
        /\ pass.error # "none" =>
               pass.replies = <<[via |-> "route", key |-> "?generic_error"]>>

(* C20 witness: in a room squelched before the message arrived, the
   selection among the candidates of a message raised the TypeError and
   the generic failure reply went out on the route. *)
C20_Witness ==
    /\ IsPass
    /\ SquelchedThroughout
    /\ pass.t0 > 0
    /\ pass.error = "TypeError"
    /\ pass.matches # <<>>
    /\ pass.replies = <<[via |-> "route", key |-> "?generic_error"]>>

====
